---- MODULE Spec2Model ----
(***************************************************************************)
(* Cache-aside service of main.py: two parameterless endpoints             *)
(* (GET /random-number, GET /random-user), each backed by one key of an    *)
(* external key-value store with a time to live.                           *)
(*                                                                         *)
(* Text (a Python str) is a sequence of Unicode code points, so that the   *)
(* JSON encoding and decoding are computed and not assumed.  A Python dict *)
(* is the sequence of its items in insertion order.  Optional values are   *)
(* None (the empty tuple) or Some(x) (the one-element tuple).              *)
(*                                                                         *)
(* Spec is the serving application: requests of both endpoints interleaved *)
(* at their awaits, the store, and the clock.  SpecLive adds the fairness  *)
(* of a store that answers and a sleep that ends.  SpecForeign starts from *)
(* a store holding texts that are not JSON.  SpecPool is the connection    *)
(* manager RedisClient: get_redis, close, and the leases of its pool.      *)
(***************************************************************************)
EXTENDS Integers, Sequences, FiniteSets, TLC

\* ------------------------------------------------------------------ bounds

\* Request slots: how many requests can be in flight at once.
MaxRequests == 2
\* How many distinct outcomes of the pseudo-random generator are explored.
RandSamples == 2
\* Seconds that pass in one step of the clock.
TickSeconds == 30
\* Pools the connection manager may build in one run.
MaxPools == 2

\* ------------------------------------------------------------ basic values

None == <<>>
Some(x) == <<x>>

Min(a, b) == IF a <= b THEN a ELSE b

\* One JSON scalar: a Python int or a Python str.
JInt(n) == [t |-> "int", v |-> n]
JStr(s) == [t |-> "str", v |-> s]

\* Text literals of the source, as code points.
TxtNumber == <<110, 117, 109, 98, 101, 114>>                     \* "number"
TxtId == <<105, 100>>                                            \* "id"
TxtName == <<110, 97, 109, 101>>                                 \* "name"
TxtAge == <<97, 103, 101>>                                       \* "age"
TxtEmail == <<101, 109, 97, 105, 108>>                           \* "email"
TxtUser == <<117, 115, 101, 114>>                                \* "user"
TxtDomain == <<64, 101, 120, 97, 109, 112, 108, 101, 46, 99, 111, 109>>  \* "@example.com"

first_names ==
  << <<1040, 1083, 1077, 1082, 1089, 1077, 1081>>,
     <<1052, 1072, 1088, 1080, 1103>>,
     <<1048, 1074, 1072, 1085>>,
     <<1054, 1083, 1100, 1075, 1072>>,
     <<1044, 1084, 1080, 1090, 1088, 1080, 1081>> >>

last_names ==
  << <<1055, 1077, 1090, 1088, 1086, 1074>>,
     <<1057, 1080, 1076, 1086, 1088, 1086, 1074, 1072>>,
     <<1048, 1074, 1072, 1085, 1086, 1074>>,
     <<1057, 1084, 1080, 1088, 1085, 1086, 1074, 1072>>,
     <<1050, 1091, 1079, 1085, 1077, 1094, 1086, 1074>> >>

\* --------------------------------------------------------- str(int), json

RECURSIVE Digits(_)
\* The decimal digits of a natural number, as code points.
Digits(n) ==
  IF n < 10 THEN <<48 + n>> ELSE Append(Digits(n \div 10), 48 + (n % 10))

\* str(n), and json's encoding of an int.
IntText(n) == IF n < 0 THEN <<45>> \o Digits(0 - n) ELSE Digits(n)

HexDigit(d) == IF d < 10 THEN 48 + d ELSE 87 + d

\* json.dumps of one character of a str, with ensure_ascii (the default).
EscapeChar(c) ==
  CASE c = 34 -> <<92, 34>>
    [] c = 92 -> <<92, 92>>
    [] c = 10 -> <<92, 110>>
    [] c = 13 -> <<92, 114>>
    [] c = 9 -> <<92, 116>>
    [] c = 8 -> <<92, 98>>
    [] c = 12 -> <<92, 102>>
    [] OTHER ->
         IF c >= 32 /\ c <= 126
         THEN <<c>>
         ELSE <<92, 117, HexDigit((c \div 4096) % 16), HexDigit((c \div 256) % 16),
                HexDigit((c \div 16) % 16), HexDigit(c % 16)>>

RECURSIVE EscapeText(_)
EscapeText(s) ==
  IF s = <<>> THEN <<>> ELSE EscapeChar(Head(s)) \o EscapeText(Tail(s))

DumpsStr(s) == <<34>> \o EscapeText(s) \o <<34>>

DumpsValue(x) == IF x.t = "int" THEN IntText(x.v) ELSE DumpsStr(x.v)

RECURSIVE DumpsItems(_)
DumpsItems(d) ==
  IF d = <<>> THEN <<>>
  ELSE DumpsStr(Head(d).k) \o <<58, 32>> \o DumpsValue(Head(d).v)
       \o (IF Tail(d) = <<>> THEN <<>> ELSE <<44, 32>> \o DumpsItems(Tail(d)))

\* json.dumps(data) of a dict of int and str values: default separators
\* ", " and ": ", non-ASCII characters escaped as \uXXXX.
json_dumps(d) == <<123>> \o DumpsItems(d) \o <<125>>

\* ---- json.loads, for JSON objects whose values are integers or strings.
\* A parse step yields [ok, v, next]: the value and the position after it.
ParseFail == [ok |-> FALSE, v |-> <<>>, next |-> 0]
ParseOk(v, next) == [ok |-> TRUE, v |-> v, next |-> next]

IsWs(c) == c \in {32, 9, 10, 13}
IsDigit(c) == c >= 48 /\ c <= 57
IsHex(c) == IsDigit(c) \/ (c >= 97 /\ c <= 102) \/ (c >= 65 /\ c <= 70)
HexVal(c) == IF IsDigit(c) THEN c - 48 ELSE IF c >= 97 THEN c - 87 ELSE c - 55

RECURSIVE SkipWs(_, _)
SkipWs(t, i) == IF i <= Len(t) /\ IsWs(t[i]) THEN SkipWs(t, i + 1) ELSE i

\* The character a two-character escape stands for; 0 when it is none.
Unescape(e) ==
  CASE e = 34 -> 34
    [] e = 92 -> 92
    [] e = 47 -> 47
    [] e = 98 -> 8
    [] e = 102 -> 12
    [] e = 110 -> 10
    [] e = 114 -> 13
    [] e = 116 -> 9
    [] OTHER -> 0

RECURSIVE ScanString(_, _, _)
\* The rest of a JSON string, from the position after its opening quote.
ScanString(t, i, acc) ==
  IF i > Len(t) THEN ParseFail
  ELSE IF t[i] = 34 THEN ParseOk(acc, i + 1)
  ELSE IF t[i] = 92 THEN
    IF i + 1 > Len(t) THEN ParseFail
    ELSE IF t[i + 1] = 117 THEN
      IF i + 5 <= Len(t) /\ \A j \in 2..5 : IsHex(t[i + j])
      THEN ScanString(t, i + 6,
             Append(acc, HexVal(t[i + 2]) * 4096 + HexVal(t[i + 3]) * 256
                         + HexVal(t[i + 4]) * 16 + HexVal(t[i + 5])))
      ELSE ParseFail
    ELSE IF Unescape(t[i + 1]) # 0
      THEN ScanString(t, i + 2, Append(acc, Unescape(t[i + 1])))
      ELSE ParseFail
  ELSE IF t[i] < 32 THEN ParseFail
  ELSE ScanString(t, i + 1, Append(acc, t[i]))

ParseString(t, i) ==
  IF i <= Len(t) /\ t[i] = 34 THEN ScanString(t, i + 1, <<>>) ELSE ParseFail

RECURSIVE ScanDigits(_, _, _)
ScanDigits(t, i, acc) ==
  IF i <= Len(t) /\ IsDigit(t[i])
  THEN ScanDigits(t, i + 1, acc * 10 + (t[i] - 48))
  ELSE ParseOk(acc, i)

\* A JSON integer: an optional minus, then 0 or a digit sequence without a
\* leading zero.  A fraction or an exponent is outside the modelled values.
ParseInt(t, i) ==
  LET neg == i <= Len(t) /\ t[i] = 45
      j == IF neg THEN i + 1 ELSE i
  IN IF ~(j <= Len(t) /\ IsDigit(t[j])) THEN ParseFail
     ELSE LET r == IF t[j] = 48 THEN ParseOk(0, j + 1) ELSE ScanDigits(t, j, 0)
          IN IF r.next <= Len(t) /\ (IsDigit(t[r.next]) \/ t[r.next] \in {46, 69, 101})
             THEN ParseFail
             ELSE ParseOk(IF neg THEN 0 - r.v ELSE r.v, r.next)

ParseValue(t, i) ==
  IF i > Len(t) THEN ParseFail
  ELSE IF t[i] = 34 THEN
    LET s == ParseString(t, i) IN IF s.ok THEN ParseOk(JStr(s.v), s.next) ELSE ParseFail
  ELSE
    LET n == ParseInt(t, i) IN IF n.ok THEN ParseOk(JInt(n.v), n.next) ELSE ParseFail

\* dict[k] = v: a key already present keeps its place and takes the value.
DictSet(d, k, v) ==
  IF \E j \in 1..Len(d) : d[j].k = k
  THEN [j \in 1..Len(d) |-> IF d[j].k = k THEN [k |-> k, v |-> v] ELSE d[j]]
  ELSE Append(d, [k |-> k, v |-> v])

RECURSIVE ParseMembers(_, _, _)
\* The members of an object, from the position of a member's key.
ParseMembers(t, i, acc) ==
  LET key == ParseString(t, SkipWs(t, i)) IN
  IF ~key.ok THEN ParseFail
  ELSE LET c == SkipWs(t, key.next) IN
    IF ~(c <= Len(t) /\ t[c] = 58) THEN ParseFail
    ELSE LET val == ParseValue(t, SkipWs(t, c + 1)) IN
      IF ~val.ok THEN ParseFail
      ELSE LET e == SkipWs(t, val.next)
               d == DictSet(acc, key.v, val.v)
           IN IF e > Len(t) THEN ParseFail
              ELSE IF t[e] = 125 THEN ParseOk(d, e + 1)
              ELSE IF t[e] = 44 THEN ParseMembers(t, e + 1, d)
              ELSE ParseFail

ParseObject(t, i) ==
  IF ~(i <= Len(t) /\ t[i] = 123) THEN ParseFail
  ELSE LET j == SkipWs(t, i + 1) IN
    IF j <= Len(t) /\ t[j] = 125 THEN ParseOk(<<>>, j + 1)
    ELSE ParseMembers(t, j, <<>>)

\* json.loads(text): [ok, v]; ok is FALSE where json.loads raises
\* JSONDecodeError.
json_loads(t) ==
  LET o == ParseObject(t, SkipWs(t, 1)) IN
  IF o.ok /\ SkipWs(t, o.next) = Len(t) + 1
  THEN [ok |-> TRUE, v |-> o.v]
  ELSE [ok |-> FALSE, v |-> <<>>]

\* ------------------------------------------------------------- generators

\* A randint whose range is one too high: a+1..b+1.
randint_shifted(a, b, i) ==
  1 + (IF RandSamples <= 1 THEN a ELSE a + ((b - a) * (i - 1)) \div (RandSamples - 1))

\* The i-th of RandSamples outcomes of random.randint(a, b), spread over
\* [a, b] with both ends among them.
randint(a, b, i) ==
  IF RandSamples <= 1 THEN a ELSE a + ((b - a) * (i - 1)) \div (RandSamples - 1)

\* The i-th outcome of random.choice(seq).
choice(seq, i) == seq[((i - 1) % Len(seq)) + 1]

\* The explored outcomes of the random draws of one generation: the number
\* handler draws once, the user handler five times.
NumberDraws == 1..RandSamples
UserDraws == {<<i, i, i, i, i>> : i \in 1..RandSamples}

\* data = {"number": random.randint(1, 100)}
number_data(i) == <<[k |-> TxtNumber, v |-> JInt(randint(1, 100, i))]>>

\* data = {"id": ..., "name": ..., "age": ..., "email": ...}
user_data(d) ==
  << [k |-> TxtId, v |-> JInt(randint(1000, 9999, d[1]))],
     [k |-> TxtName,
      v |-> JStr(choice(first_names, d[2]) \o <<32>> \o choice(last_names, d[3]))],
     [k |-> TxtAge, v |-> JInt(randint(18, 65, d[4]))],
     [k |-> TxtEmail,
      v |-> JStr(TxtUser \o IntText(randint(100, 999, d[5])) \o TxtDomain)] >>

\* --------------------------------------------------------------- handlers

Handlers == {"get_random_number", "get_random_user"}

\* Both handlers on one key.
cache_key_same(h) == "random_number"

cache_key(h) == IF h = "get_random_number" THEN "random_number" ELSE "random_user"

expire_seconds(h) == IF h = "get_random_number" THEN 30 ELSE 60

\* The data a handler can generate on a miss.
Generated(h) ==
  IF h = "get_random_number"
  THEN {number_data(i) : i \in NumberDraws}
  ELSE {user_data(d) : d \in UserDraws}

Keys == {cache_key(h) : h \in Handlers}
HandlerOf(k) == CHOOSE h \in Handlers : cache_key(h) = k

\* ------------------------------------------------------------------ store
\* The store is a set of entries [key, val, ttl]: ttl is the seconds the
\* entry has left to live.

\* A GET that does not look at the key.
redis_get_anykey(s, key) ==
  IF s = {} THEN None ELSE Some((CHOOSE e \in s : TRUE).val)

\* GET key
redis_get(s, key) ==
  IF \E e \in s : e.key = key
  THEN Some((CHOOSE e \in s : e.key = key).val)
  ELSE None

\* A write that sets the key only when it is absent (SET ... NX).
redis_setex_nx(s, key, seconds, value) ==
  IF \E e \in s : e.key = key
  THEN s
  ELSE s \cup {[key |-> key, val |-> value, ttl |-> seconds]}

\* A write that keeps the time the key had left (SET ... KEEPTTL).
redis_setex_keepttl(s, key, seconds, value) ==
  {e \in s : e.key # key}
    \cup {[key |-> key, val |-> value,
           ttl |-> IF \E e \in s : e.key = key
                   THEN (CHOOSE e \in s : e.key = key).ttl ELSE seconds]}

\* SETEX key seconds value
redis_setex(s, key, seconds, value) ==
  {e \in s : e.key # key} \cup {[key |-> key, val |-> value, ttl |-> seconds]}

\* Entries written without an expiry: none is ever dropped.
Elapse_persist(s, dt) == {[e EXCEPT !.ttl = IF @ > dt THEN @ - dt ELSE @] : e \in s}

\* A store that keeps an entry until after its time is up.
Elapse_late(s, dt) == {[e EXCEPT !.ttl = @ - dt] : e \in {x \in s : x.ttl >= dt}}

\* The store after dt seconds: entries whose time is up are gone.
Elapse(s, dt) == {[e EXCEPT !.ttl = @ - dt] : e \in {x \in s : x.ttl > dt}}

\* `if cached is not None:`.
Truthy_not_none(cached) == cached # None

\* `if cached:` of a handler: None and the empty str are false.
Truthy(cached) == cached # None /\ cached[1] # <<>>

\* ------------------------------------------------------------------ state

Requests == 1..MaxRequests

VARIABLES
  store,       \* the external store: a set of entries [key, val, ttl]
  pc,          \* per request slot: idle, CHECK_CACHE, COMPUTE, RESPOND, ERROR
  handler,     \* per request slot: the handler that runs in it
  cached,      \* per request slot: what get_cached_data returned to it
  resp,        \* per request slot: the response returned, if any
  failed,      \* per request slot: the call that raised, if any
  lastWrite,   \* per key: the last completed SETEX: its data, seconds and age (history)
  reads,       \* per key: the texts read since its last write or expiry (history)
  hits,        \* per key: the data served from cache since its last write or expiry (history)
  windowHits,  \* per key: the data served from cache since the key last became live (history)
  replaced,    \* per request slot: the time left of the entries its write replaced (history)
  calls,       \* per request slot: the store calls it has made, [get, setex] (history)
  pool,        \* RedisClient._pool: None or the pool recorded, named by its number
  created,     \* the number of pools built so far (history)
  closes,      \* the number of closes that un-recorded a pool (history)
  in_use,      \* per pool: the connections leased to store operations in flight
  closing,     \* position of a call of RedisClient.close: idle, called, disconnect
  disconnected,\* the pools whose disconnect() was called
  refused,     \* the last store operation started was refused a connection (history)
  lastClose    \* what the last close that returned did: none, noop, closed (history)

cacheVars ==
  <<store, pc, handler, cached, resp, failed, lastWrite, reads, hits, windowHits,
    replaced, calls>>
\* What a handler's store call leaves alone in the connection manager.
leaseVars == <<closes, in_use, closing, disconnected, refused, lastClose>>
poolVars == <<pool, created, leaseVars>>
vars == <<cacheVars, poolVars>>

Pools == 1..MaxPools
NoCalls == [get |-> 0, setex |-> 0]

\* The entries another client of the store may have left: an empty value.
InitStores ==
  SUBSET {[key |-> k, val |-> <<>>, ttl |-> expire_seconds(HandlerOf(k))] : k \in Keys}

InitCache ==
  /\ pc = [r \in Requests |-> "idle"]
  /\ handler = [r \in Requests |-> "none"]
  /\ cached = [r \in Requests |-> None]
  /\ resp = [r \in Requests |-> None]
  /\ failed = [r \in Requests |-> "none"]
  /\ lastWrite = [k \in Keys |-> None]
  /\ reads = [k \in Keys |-> {}]
  /\ hits = [k \in Keys |-> {}]
  /\ windowHits = [k \in Keys |-> {}]
  /\ replaced = [r \in Requests |-> {}]
  /\ calls = [r \in Requests |-> NoCalls]

InitLeases ==
  /\ closes = 0
  /\ in_use = [p \in Pools |-> 0]
  /\ closing = "idle"
  /\ disconnected = {}
  /\ refused = FALSE
  /\ lastClose = "none"

\* The application is serving: the lifespan's startup has run get_redis, which
\* built the pool.
Init ==
  /\ store \in InitStores
  /\ InitCache
  /\ InitLeases
  /\ pool = Some(1)
  /\ created = 1

\* ---------------------------------------------------------------- actions

\* A get_redis that builds a pool on every call.
get_redis_fresh ==
  /\ created < MaxPools
  /\ pool' = Some(created + 1)
  /\ created' = created + 1

\* if cls._pool is None: cls._pool = ConnectionPool.from_url(...); return
\* Redis(connection_pool=cls._pool).  Nothing is awaited between the test and
\* the assignment, so the call is one step.
get_redis ==
  /\ pool # None \/ created < MaxPools
  /\ pool' = IF pool = None THEN Some(created + 1) ELSE pool
  /\ created' = IF pool = None THEN created + 1 ELSE created

\* A read of the other endpoint's key.
get_cached_data_other(key) ==
  redis_get(store, IF key = "random_number" THEN "random_user" ELSE "random_number")

\* redis = await RedisClient.get_redis(); return await redis.get(key)
get_cached_data(key) == redis_get(store, key)

\* A write that is never sent.
set_cached_data_skip(key, value, seconds) == store' = store

\* redis = await RedisClient.get_redis(); await redis.setex(key, expire_seconds, value)
set_cached_data(key, value, seconds) == store' = redis_setex(store, key, seconds, value)

\* A request arrives: the HTTP layer calls handler h in the lowest free slot.
Invoke(r, h) ==
  /\ pc[r] = "idle"
  /\ \A q \in Requests : q < r => pc[q] # "idle"
  /\ pc' = [pc EXCEPT ![r] = "CHECK_CACHE"]
  /\ handler' = [handler EXCEPT ![r] = h]
  /\ UNCHANGED <<store, cached, resp, failed, lastWrite, reads, hits, windowHits, replaced,
                 calls, poolVars>>

\* A handler that takes a cached text it cannot decode for a miss.
CheckCache_decode_miss(r) ==
  /\ pc[r] = "CHECK_CACHE"
  /\ LET key == cache_key(handler[r])
         c == get_cached_data(key)
         j == json_loads(c[1])
     IN /\ cached' = [cached EXCEPT ![r] = c]
        /\ IF Truthy(c)
           THEN IF j.ok
                THEN /\ pc' = [pc EXCEPT ![r] = "RESPOND"]
                     /\ resp' = [resp EXCEPT ![r] = Some([data |-> j.v, source |-> "cache"])]
                     /\ hits' = [hits EXCEPT ![key] = @ \cup {j.v}]
                     /\ windowHits' = [windowHits EXCEPT ![key] = @ \cup {j.v}]
                     /\ UNCHANGED failed
                ELSE /\ pc' = [pc EXCEPT ![r] = "COMPUTE"]
                     /\ UNCHANGED <<resp, failed, hits, windowHits>>
           ELSE /\ pc' = [pc EXCEPT ![r] = "COMPUTE"]
                /\ UNCHANGED <<resp, failed, hits, windowHits>>
        /\ reads' = [reads EXCEPT ![key] = IF c = None THEN @ ELSE @ \cup {c[1]}]
  /\ get_redis
  /\ calls' = [calls EXCEPT ![r].get = @ + 1]
  /\ UNCHANGED <<store, handler, lastWrite, replaced, leaseVars>>

\* A handler whose hit gives the entry its full seconds again.
CheckCache_touch(r) ==
  /\ pc[r] = "CHECK_CACHE"
  /\ LET key == cache_key(handler[r])
         c == get_cached_data(key)
         j == json_loads(c[1])
     IN /\ cached' = [cached EXCEPT ![r] = c]
        /\ IF Truthy(c)
           THEN IF j.ok
                THEN /\ pc' = [pc EXCEPT ![r] = "RESPOND"]
                     /\ resp' = [resp EXCEPT ![r] = Some([data |-> j.v, source |-> "cache"])]
                     /\ hits' = [hits EXCEPT ![key] = @ \cup {j.v}]
                     /\ windowHits' = [windowHits EXCEPT ![key] = @ \cup {j.v}]
                     /\ UNCHANGED failed
                ELSE /\ pc' = [pc EXCEPT ![r] = "ERROR"]
                     /\ failed' = [failed EXCEPT ![r] = "json.loads"]
                     /\ UNCHANGED <<resp, hits, windowHits>>
           ELSE /\ pc' = [pc EXCEPT ![r] = "COMPUTE"]
                /\ UNCHANGED <<resp, failed, hits, windowHits>>
        /\ reads' = [reads EXCEPT ![key] = IF c = None THEN @ ELSE @ \cup {c[1]}]
  /\ get_redis
  /\ calls' = [calls EXCEPT ![r].get = @ + 1]
  /\ store' = LET key == cache_key(handler[r])
                  c == get_cached_data(key)
              IN IF Truthy(c)
                 THEN redis_setex(store, key, expire_seconds(handler[r]), c[1])
                 ELSE store
  /\ UNCHANGED <<handler, lastWrite, replaced, leaseVars>>

\* cached = await get_cached_data(cache_key); if cached: return {"data":
\* json.loads(cached), "source": "cache"}; otherwise the handler goes on to
\* sleep.  json.loads raising ends the request in an error.
CheckCache(r) ==
  /\ pc[r] = "CHECK_CACHE"
  /\ LET key == cache_key(handler[r])
         c == get_cached_data(key)
         j == json_loads(c[1])
     IN /\ cached' = [cached EXCEPT ![r] = c]
        /\ IF Truthy(c)
           THEN IF j.ok
                THEN /\ pc' = [pc EXCEPT ![r] = "RESPOND"]
                     /\ resp' = [resp EXCEPT ![r] = Some([data |-> j.v, source |-> "cache"])]
                     /\ hits' = [hits EXCEPT ![key] = @ \cup {j.v}]
                     /\ windowHits' = [windowHits EXCEPT ![key] = @ \cup {j.v}]
                     /\ UNCHANGED failed
                ELSE /\ pc' = [pc EXCEPT ![r] = "ERROR"]
                     /\ failed' = [failed EXCEPT ![r] = "json.loads"]
                     /\ UNCHANGED <<resp, hits, windowHits>>
           ELSE /\ pc' = [pc EXCEPT ![r] = "COMPUTE"]
                /\ UNCHANGED <<resp, failed, hits, windowHits>>
        /\ reads' = [reads EXCEPT ![key] = IF c = None THEN @ ELSE @ \cup {c[1]}]
  /\ get_redis
  /\ calls' = [calls EXCEPT ![r].get = @ + 1]
  /\ UNCHANGED <<store, handler, lastWrite, replaced, leaseVars>>

\* A read failure caught and taken for a miss.
CheckCacheFails_fallback(r) ==
  /\ pc[r] = "CHECK_CACHE"
  /\ pc' = [pc EXCEPT ![r] = "COMPUTE"]
  /\ failed' = [failed EXCEPT ![r] = "get_cached_data"]
  /\ get_redis
  /\ calls' = [calls EXCEPT ![r].get = @ + 1]
  /\ UNCHANGED <<store, handler, cached, resp, lastWrite, reads, hits, windowHits, replaced,
                 leaseVars>>

\* A handler that reads again when its read raised.
CheckCacheFails_retry(r) ==
  /\ pc[r] = "CHECK_CACHE"
  /\ get_redis
  /\ calls' = [calls EXCEPT ![r].get = @ + 1]
  /\ UNCHANGED <<store, pc, handler, cached, resp, failed, lastWrite, reads, hits,
                 windowHits, replaced, leaseVars>>

\* The store cannot be reached for the read: get_cached_data raises, and the
\* handler, which catches nothing, ends in an error.
CheckCacheFails(r) ==
  /\ pc[r] = "CHECK_CACHE"
  /\ pc' = [pc EXCEPT ![r] = "ERROR"]
  /\ failed' = [failed EXCEPT ![r] = "get_cached_data"]
  /\ get_redis
  /\ calls' = [calls EXCEPT ![r].get = @ + 1]
  /\ UNCHANGED <<store, handler, cached, resp, lastWrite, reads, hits, windowHits, replaced,
                 leaseVars>>

\* A handler that writes one generated value and returns another.
Compute_regenerate(r) ==
  /\ pc[r] = "COMPUTE"
  /\ \E data \in Generated(handler[r]), other \in Generated(handler[r]) :
       LET h == handler[r]
           key == cache_key(h)
           old == {e \in store : e.key = key}
       IN /\ store' = redis_setex(store, key, expire_seconds(h), json_dumps(data))
          /\ resp' = [resp EXCEPT ![r] = Some([data |-> other, source |-> "generated"])]
          /\ lastWrite' = [lastWrite EXCEPT ![key] =
               Some([data |-> data, seconds |-> expire_seconds(h), age |-> 0])]
          /\ replaced' = [replaced EXCEPT ![r] = {e.ttl : e \in old}]
          /\ reads' = [reads EXCEPT ![key] = {}]
          /\ hits' = [hits EXCEPT ![key] = {}]
  /\ pc' = [pc EXCEPT ![r] = "RESPOND"]
  /\ get_redis
  /\ calls' = [calls EXCEPT ![r].setex = @ + 1]
  /\ UNCHANGED <<handler, cached, failed, windowHits, leaseVars>>

\* The sleep ends; data is generated, written with the handler's TTL and
\* returned: await set_cached_data(cache_key, json.dumps(data), expire_seconds)
\* then return {"data": data, "source": "generated"}.
Compute(r) ==
  /\ pc[r] = "COMPUTE"
  /\ \E data \in Generated(handler[r]) :
       LET h == handler[r]
           key == cache_key(h)
           old == {e \in store : e.key = key}
       IN /\ set_cached_data(key, json_dumps(data), expire_seconds(h))
          /\ resp' = [resp EXCEPT ![r] = Some([data |-> data, source |-> "generated"])]
          /\ lastWrite' = [lastWrite EXCEPT ![key] =
               Some([data |-> data, seconds |-> expire_seconds(h), age |-> 0])]
          /\ replaced' = [replaced EXCEPT ![r] = {e.ttl : e \in old}]
          /\ reads' = [reads EXCEPT ![key] = {}]
          /\ hits' = [hits EXCEPT ![key] = {}]
  /\ pc' = [pc EXCEPT ![r] = "RESPOND"]
  /\ get_redis
  /\ calls' = [calls EXCEPT ![r].setex = @ + 1]
  /\ UNCHANGED <<handler, cached, failed, windowHits, leaseVars>>

\* The store cannot be reached for the write: set_cached_data raises after
\* the data was generated, and the handler ends in an error.
ComputeFails(r) ==
  /\ pc[r] = "COMPUTE"
  /\ pc' = [pc EXCEPT ![r] = "ERROR"]
  /\ failed' = [failed EXCEPT ![r] = "set_cached_data"]
  /\ get_redis
  /\ calls' = [calls EXCEPT ![r].setex = @ + 1]
  /\ UNCHANGED <<store, handler, cached, resp, lastWrite, reads, hits, windowHits, replaced,
                 leaseVars>>

\* The HTTP layer has sent the response (or the server error): the slot is free.
Finish(r) ==
  /\ pc[r] \in {"RESPOND", "ERROR"}
  /\ pc' = [pc EXCEPT ![r] = "idle"]
  /\ handler' = [handler EXCEPT ![r] = "none"]
  /\ cached' = [cached EXCEPT ![r] = None]
  /\ resp' = [resp EXCEPT ![r] = None]
  /\ failed' = [failed EXCEPT ![r] = "none"]
  /\ replaced' = [replaced EXCEPT ![r] = {}]
  /\ calls' = [calls EXCEPT ![r] = NoCalls]
  /\ UNCHANGED <<store, lastWrite, reads, hits, windowHits, poolVars>>

\* TickSeconds pass: every entry has that much less to live, and the store
\* drops the entries whose time is up.
Tick ==
  LET expired == {k \in Keys : redis_get(store, k) # None
                               /\ redis_get(Elapse(store, TickSeconds), k) = None}
  IN /\ store' = Elapse(store, TickSeconds)
     /\ lastWrite' = [k \in Keys |->
          IF lastWrite[k] = None THEN None
          ELSE Some([lastWrite[k][1] EXCEPT
                 !.age = Min(@ + TickSeconds, lastWrite[k][1].seconds)])]
     /\ reads' = [k \in Keys |-> IF k \in expired THEN {} ELSE reads[k]]
     /\ hits' = [k \in Keys |-> IF k \in expired THEN {} ELSE hits[k]]
     /\ windowHits' = [k \in Keys |-> IF k \in expired THEN {} ELSE windowHits[k]]
     /\ UNCHANGED <<pc, handler, cached, resp, failed, replaced, calls, poolVars>>

Next ==
  \/ \E r \in Requests, h \in Handlers : Invoke(r, h)
  \/ \E r \in Requests : CheckCache(r)
  \/ \E r \in Requests : CheckCacheFails(r)
  \/ \E r \in Requests : Compute(r)
  \/ \E r \in Requests : ComputeFails(r)
  \/ \E r \in Requests : Finish(r)
  \/ Tick

Spec == Init /\ [][Next]_vars

\* The store answers every operation, with a value or with an error, and the
\* sleep of a handler ends: a request that waits for its read gets it, and a
\* request on the miss path gets to its write.
Fairness ==
  \A r \in Requests :
    /\ WF_vars(CheckCacheFails(r) \/ CheckCache(r))
    /\ WF_vars(ComputeFails(r) \/ Compute(r))

SpecLive == Spec /\ Fairness

\* ------------------------------------------------- the connection manager

\* max_connections=20 of ConnectionPool.from_url.
max_connections == 20

\* A pool that leases connections without a limit.
get_connection_unbounded(n) == [ok |-> TRUE, n |-> n + 1]

\* ConnectionPool.get_connection with n connections of the pool leased: one
\* more is leased while fewer than max_connections are; at the limit the pool
\* raises ConnectionError("Too many connections") (it is the class
\* BlockingConnectionPool, which main.py does not use, that waits).
get_connection(n) ==
  IF n < max_connections THEN [ok |-> TRUE, n |-> n + 1] ELSE [ok |-> FALSE, n |-> n]

\* The process has started and nothing has run: no pool is recorded.
InitPool ==
  /\ store = {}
  /\ InitCache
  /\ InitLeases
  /\ pool = None
  /\ created = 0

\* await RedisClient.get_redis() of the lifespan's startup.
Acquire ==
  /\ get_redis
  /\ UNCHANGED <<cacheVars, leaseVars>>

\* A store operation of an accessor starts: redis = await
\* RedisClient.get_redis(), then redis.get / redis.setex takes a connection
\* of that client's pool, or is refused one.
StoreOpStart ==
  /\ get_redis
  /\ LET p == pool'[1]
         c == get_connection(in_use[p])
     IN /\ in_use' = [in_use EXCEPT ![p] = c.n]
        /\ refused' = ~c.ok
  /\ UNCHANGED <<cacheVars, closes, closing, disconnected, lastClose>>

\* A store operation in flight on pool p ends and gives its connection back.
StoreOpEnd(p) ==
  /\ in_use[p] > 0
  /\ in_use' = [in_use EXCEPT ![p] = @ - 1]
  /\ UNCHANGED <<cacheVars, pool, created, closes, closing, disconnected, refused, lastClose>>

\* RedisClient.close() is called (the lifespan's shutdown calls it).
CloseCall ==
  /\ closing = "idle"
  /\ closing' = "called"
  /\ UNCHANGED <<cacheVars, pool, created, closes, in_use, disconnected, refused, lastClose>>

\* `if cls._pool:` is false: close returns.
CloseNoPool ==
  /\ closing = "called"
  /\ pool = None
  /\ closing' = "idle"
  /\ lastClose' = "noop"
  /\ UNCHANGED <<cacheVars, pool, created, closes, in_use, disconnected, refused>>

\* `if cls._pool:` is true: await cls._pool.disconnect().
CloseDisconnect ==
  /\ closing = "called"
  /\ pool # None
  /\ closing' = "disconnect"
  /\ disconnected' = disconnected \cup {pool[1]}
  /\ UNCHANGED <<cacheVars, pool, created, closes, in_use, refused, lastClose>>

\* A close that leaves the pool recorded.
CloseReset_keep ==
  /\ closing = "disconnect"
  /\ closing' = "idle"
  /\ lastClose' = "closed"
  /\ UNCHANGED <<cacheVars, pool, created, closes, in_use, disconnected, refused>>

\* disconnect() has returned: cls._pool = None.
CloseReset ==
  /\ closing = "disconnect"
  /\ pool' = None
  /\ closes' = closes + 1
  /\ closing' = "idle"
  /\ lastClose' = "closed"
  /\ UNCHANGED <<cacheVars, created, in_use, disconnected, refused>>

\* The connection manager under any sequence of calls of get_redis and close
\* and any number of store operations in flight.
NextPool ==
  \/ Acquire
  \/ StoreOpStart
  \/ \E p \in Pools : StoreOpEnd(p)
  \/ CloseCall
  \/ CloseNoPool
  \/ CloseDisconnect
  \/ CloseReset

SpecPool == InitPool /\ [][NextPool]_vars

\* ------------------------------------------- a store with foreign values

\* Texts that json.loads rejects: an object cut short, {"number": 1 without
\* its closing brace, and a bare word, oops.
MalformedText(k) ==
  IF k = "random_number"
  THEN SubSeq(json_dumps(number_data(1)), 1, Len(json_dumps(number_data(1))) - 1)
  ELSE <<111, 111, 112, 115>>

\* The store as another client may have left it: under each key nothing, or
\* a text that is not JSON.
InitForeign ==
  /\ store \in SUBSET {[key |-> k, val |-> MalformedText(k),
                         ttl |-> expire_seconds(HandlerOf(k))] : k \in Keys}
  /\ InitCache
  /\ InitLeases
  /\ pool = Some(1)
  /\ created = 1

SpecForeign == InitForeign /\ [][Next]_vars

\* ----------------------------------------------------------------- claims

KeyOf(r) == cache_key(handler[r])
Entries(s, k) == {e \in s : e.key = k}

\* The last write of key k by this program is younger than its seconds.
WriteLive(k) == lastWrite[k] # None /\ lastWrite[k][1].age < lastWrite[k][1].seconds
\* The seconds of the last write of key k have elapsed with no further write.
WriteElapsed(k) == lastWrite[k] # None /\ lastWrite[k][1].age >= lastWrite[k][1].seconds

\* Request r completes its read of the cache in this step (the read did not raise).
ReadStep(r) ==
  pc[r] = "CHECK_CACHE" /\ pc'[r] # "CHECK_CACHE" /\ failed'[r] # "get_cached_data"
\* Request r completes its write and returns in this step.
WriteStep(r) == pc[r] = "COMPUTE" /\ pc'[r] = "RESPOND"

Returned(r, source) ==
  pc[r] = "RESPOND" /\ resp[r] # None /\ resp[r][1].source = source

\* C1: a request that read its key as absent and completes responds with
\* source "generated"; a request whose read happens after a completed write of
\* the key and before the seconds of that write have elapsed responds with
\* source "cache" and data equal to the data that write's request returned.
C1_CachePopulation ==
  [][\A r \in Requests :
       /\ (WriteStep(r) /\ cached[r] = None) => resp'[r][1].source = "generated"
       /\ (ReadStep(r) /\ WriteLive(KeyOf(r))) =>
            /\ pc'[r] = "RESPOND"
            /\ resp'[r] = Some([data |-> lastWrite[KeyOf(r)][1].data, source |-> "cache"])
    ]_vars

\* A user request found the key absent and returned generated data; the next
\* request returned the same data from the cache.
C1_Witness ==
  \E r, q \in Requests :
    /\ r # q
    /\ handler[r] = "get_random_user" /\ handler[q] = "get_random_user"
    /\ Returned(r, "generated") /\ cached[r] = None
    /\ Returned(q, "cache") /\ resp[q][1].data = resp[r][1].data
    /\ WriteLive("random_user")

\* C2: once the seconds of a write have elapsed with no further write the key
\* is absent, a read of it then returns None, the handler takes the miss path,
\* and a handler on the miss path responds with source "generated".
C2_TTLExpiry ==
  [][/\ \A k \in Keys : WriteElapsed(k)' => redis_get(store', k) = None
     /\ \A r \in Requests :
          /\ (ReadStep(r) /\ WriteElapsed(KeyOf(r))) =>
               (cached'[r] = None /\ pc'[r] = "COMPUTE")
          /\ WriteStep(r) => resp'[r][1].source = "generated"
    ]_vars

\* A request reads None after the entry of an earlier write has expired.
C2_Witness ==
  \E r \in Requests :
    pc[r] = "COMPUTE" /\ cached[r] = None /\ WriteElapsed(KeyOf(r))

\* C3 as stated: the cache responses of an endpoint served while its key
\* stayed live (no expiry between them) all carry the same data.
C3_SameWhileLive == \A k \in Keys : Cardinality(windowHits[k]) <= 1

\* C3 amended: the cache responses of an endpoint served with neither an
\* expiry nor a write of its key between them all carry the same data.
C3_SameSinceWrite == \A k \in Keys : Cardinality(hits[k]) <= 1

\* Two requests of one endpoint were both served the same data from the cache.
C3_Witness ==
  \E r, q \in Requests :
    /\ r # q /\ handler[r] = handler[q]
    /\ Returned(r, "cache") /\ Returned(q, "cache")
    /\ hits[KeyOf(r)] = {resp[r][1].data}
    /\ resp[q][1].data = resp[r][1].data

\* C4: the value a key holds is the one written by the write that happened
\* last, also when two requests missed together and both wrote.
C4_LastWriteWins ==
  \A k \in Keys :
    WriteLive(k) => redis_get(store, k) = Some(json_dumps(lastWrite[k][1].data))

\* Two requests of one endpoint both read the key as absent, both generated
\* and both wrote: both return "generated", with different data, and the
\* cache holds the data of q, whose write replaced the entry r had written.
C4_Witness ==
  \E r, q \in Requests :
    /\ r # q /\ handler[r] = handler[q]
    /\ Returned(r, "generated") /\ Returned(q, "generated")
    /\ cached[r] = None /\ cached[q] = None
    /\ resp[r][1].data # resp[q][1].data
    /\ replaced[q] # {}
    /\ lastWrite[KeyOf(q)][1].age = 0
    /\ redis_get(store, KeyOf(q)) = Some(json_dumps(resp[q][1].data))

\* C5: the reads of a key made within one TTL (with neither a write nor an
\* expiry of the key between them) all return the same text.
C5_ReadIdempotent == \A k \in Keys : Cardinality(reads[k]) <= 1

\* Two requests read the same text of a key since it was last written.
C5_Witness ==
  \E r, q \in Requests :
    /\ r # q /\ handler[r] = handler[q]
    /\ Truthy(cached[r]) /\ cached[q] = cached[r]
    /\ reads[KeyOf(r)] = {cached[r][1]}
    /\ WriteLive(KeyOf(r))

\* C6: a response has source "cache" or "generated"; it is "cache" exactly
\* when the request's read returned a non-empty text, and its data is then
\* that text deserialized; it is "generated" exactly when the read returned
\* None or the empty text, the request then ran the generator, and an empty
\* text is never taken for a value to decode.
C6_Provenance ==
  \A r \in Requests :
    LET nonEmpty == cached[r] # None /\ Len(cached[r][1]) > 0 IN
    /\ (pc[r] = "RESPOND") = (resp[r] # None)
    /\ pc[r] = "RESPOND" =>
         /\ resp[r][1].source \in {"cache", "generated"}
         /\ (resp[r][1].source = "cache") = nonEmpty
         /\ (resp[r][1].source = "generated") = ~nonEmpty
         /\ resp[r][1].source = "cache" =>
              json_loads(cached[r][1]) = [ok |-> TRUE, v |-> resp[r][1].data]
         /\ resp[r][1].source = "generated" => resp[r][1].data \in Generated(handler[r])
    /\ pc[r] = "COMPUTE" => ~nonEmpty
    /\ failed[r] = "json.loads" => nonEmpty

\* One request was served from the cache while another, which had read an
\* empty text, returned generated data.
C6_Witness ==
  \E r, q \in Requests :
    /\ Returned(r, "cache") /\ handler[r] = "get_random_user"
    /\ Returned(q, "generated") /\ cached[q] = Some(<<>>)

\* C7: the store holds at most one entry per key, and a write leaves exactly
\* one entry of its key: the value written, with the full seconds of the
\* write to live, whatever the entry it replaced had left.
C7_OverwriteResetsTTL ==
  [][/\ \A k \in Keys : Cardinality(Entries(store, k)) <= 1
                        /\ Cardinality(Entries(store', k)) <= 1
     /\ \A r \in Requests :
          WriteStep(r) =>
            Entries(store', KeyOf(r)) =
              {[key |-> KeyOf(r), val |-> json_dumps(resp'[r][1].data),
                ttl |-> expire_seconds(handler[r])]}
    ]_vars

\* A write replaced an entry that had less than the full seconds left, and
\* the key has the full seconds again.
C7_Witness ==
  \E r \in Requests :
    /\ Returned(r, "generated")
    /\ \E t \in replaced[r] : t < expire_seconds(handler[r])
    /\ \E e \in store : e.key = KeyOf(r) /\ e.ttl = expire_seconds(handler[r])

\* C8: the number handler reads and writes "random_number" only, with 30
\* seconds; the user handler reads and writes "random_user" only, with 60
\* seconds; a step of a request leaves the entries of the other key as they were.
C8_KeyFrame ==
  [][\A r \in Requests :
       pc'[r] # pc[r] =>
         LET h == IF pc[r] = "idle" THEN handler'[r] ELSE handler[r]
             key == IF h = "get_random_number" THEN "random_number" ELSE "random_user"
             ttl == IF h = "get_random_number" THEN 30 ELSE 60
         IN /\ {e \in store' : e.key # key} = {e \in store : e.key # key}
            /\ ReadStep(r) => cached'[r] = redis_get(store, key)
            /\ WriteStep(r) =>
                 /\ \E e \in store' : e.key = key /\ e.ttl = ttl
                 /\ \A e \in store' \ store : e.key = key /\ e.ttl = ttl
    ]_vars

\* The number handler has just written its key while the entry of the user
\* key, with part of its time gone, is still there.
C8_Witness ==
  \E r \in Requests :
    /\ Returned(r, "generated") /\ handler[r] = "get_random_number"
    /\ lastWrite["random_number"][1].age = 0
    /\ \E e \in store : e.key = "random_user" /\ e.val # <<>> /\ e.ttl < 60
    /\ \E e \in store : e.key = "random_number" /\ e.ttl = 30

\* C9: when the read of the cache raises, the request ends in an error: it
\* does not go on to generate, returns no response and leaves the store as
\* it was, and a request that ended in an error does nothing more.
C9_ReadFailure ==
  [][\A r \in Requests :
       /\ (pc[r] = "CHECK_CACHE" /\ failed'[r] = "get_cached_data") =>
            (pc'[r] = "ERROR" /\ resp'[r] = None /\ store' = store)
       /\ (pc[r] = "ERROR" /\ pc'[r] # "ERROR") =>
            (pc'[r] = "idle" /\ resp[r] = None /\ store' = store)
    ]_vars

\* A request whose read raised has ended in an error while the key it asked
\* for holds a generated value.
C9_Witness ==
  \E r \in Requests :
    /\ pc[r] = "ERROR" /\ failed[r] = "get_cached_data"
    /\ WriteLive(KeyOf(r))

\* C10: a "generated" response is returned only with the request's write of
\* exactly that data done; when the write raises the request ends in an
\* error, returns no response and leaves the key as it was.
C10_AllOrNothing ==
  [][\A r \in Requests :
       /\ (resp[r] = None /\ resp'[r] # None /\ resp'[r][1].source = "generated") =>
            /\ pc[r] = "COMPUTE"
            /\ Entries(store', KeyOf(r)) =
                 {[key |-> KeyOf(r), val |-> json_dumps(resp'[r][1].data),
                   ttl |-> expire_seconds(handler[r])]}
       /\ (pc[r] = "COMPUTE" /\ failed'[r] = "set_cached_data") =>
            (pc'[r] = "ERROR" /\ resp'[r] = None /\ store' = store)
       /\ pc'[r] = "ERROR" => resp'[r] = None
    ]_vars

\* A request whose write raised has ended in an error, and the key still
\* holds the value another request wrote.
C10_Witness ==
  \E r \in Requests :
    /\ pc[r] = "ERROR" /\ failed[r] = "set_cached_data"
    /\ WriteLive(KeyOf(r))
    /\ redis_get(store, KeyOf(r)) # None

\* C11 as stated: the pool is built by the first get_redis and every later
\* get_redis, over any sequence of requests and of calls of get_redis and
\* close, reuses it: at most one pool is ever built in a process.
C11_OnePoolEver == created <= 1

\* C11 amended: at most one pool is recorded at a time, and it is the one
\* built last; a pool is built only by a get_redis that finds none recorded
\* (the first of the process, or the first after a close has reset the
\* record), every other get_redis reuses the recorded pool, and so the pools
\* built never exceed the closes that reset the record plus one.
C11_OnePoolPerClose ==
  [][/\ created' # created => (pool = None /\ created' = created + 1)
     /\ pool # None => (pool' = pool \/ (pool' = None /\ closing = "disconnect"))
     /\ pool' # None => pool'[1] = created'
     /\ created' <= closes' + 1
    ]_vars

\* After a close, get_redis built a second pool, and two store operations,
\* started one after the other, both hold a connection of that same pool.
C11_Witness ==
  /\ created = 2 /\ closes = 1
  /\ pool = Some(2)
  /\ in_use[2] = 2

\* C12: a close that finds no pool recorded returns and changes nothing; a
\* close that finds a pool calls its disconnect() and, when it returns, no
\* pool is recorded; so every close that returns leaves no pool recorded, and
\* a close called after a close did all that it does the first time.
C12_CloseIdempotent ==
  [][/\ (closing = "called" /\ pool = None /\ closing' # "called") =>
          /\ closing' = "idle"
          /\ UNCHANGED <<cacheVars, pool, created, closes, in_use, disconnected>>
     /\ (closing = "called" /\ pool # None /\ closing' # "called") =>
          /\ closing' = "disconnect"
          /\ pool[1] \in disconnected'
     /\ (closing # "idle" /\ closing' = "idle") =>
          /\ pool' = None
          /\ pool # None => pool[1] \in disconnected
    ]_vars

\* A close disconnected the one pool built and reset the record; the close
\* called after it found no pool and returned.
C12_Witness ==
  /\ closing = "idle" /\ lastClose = "noop"
  /\ created = 1 /\ closes = 1
  /\ disconnected = {1}
  /\ pool = None

\* C13 as stated: never more than 20 connections of the pool are leased, and
\* a store operation that starts while 20 are leased waits and then proceeds:
\* no store operation fails for want of a free connection.
C13_WaitsForSlot ==
  /\ \A p \in Pools : in_use[p] <= 20
  /\ ~refused

\* C13 amended: never more than 20 connections of a pool are leased; a store
\* operation that starts while fewer are leased takes one, and one that
\* starts while 20 are leased is refused and fails, leaving the leases as
\* they were.
C13_RefusedAtLimit ==
  [][/\ \A p \in Pools :
          /\ in_use'[p] <= 20
          /\ in_use'[p] > in_use[p] =>
               (in_use[p] < 20 /\ in_use'[p] = in_use[p] + 1 /\ ~refused')
     /\ (refused' /\ ~refused) =>
          /\ pool' # None /\ in_use[pool'[1]] = 20
          /\ in_use' = in_use
     /\ (refused /\ ~refused') => \E p \in Pools : in_use'[p] = in_use[p] + 1
    ]_vars

\* Twenty store operations are in flight on the recorded pool and the
\* twenty-first was refused a connection.
C13_Witness ==
  /\ pool = Some(1)
  /\ in_use[1] = 20
  /\ refused

\* {"number": n} with n an integer from 1 to 100.
IsNumberData(d) ==
  /\ Len(d) = 1
  /\ d[1].k = TxtNumber
  /\ d[1].v.t = "int"
  /\ d[1].v.v \in 1..100

\* C14: every number generated is an integer from 1 to 100, and so is the
\* number in every value this program stored under "random_number" and in
\* the data of every response of the number endpoint, from the cache or
\* generated.
C14_NumberRange ==
  /\ \A d \in Generated("get_random_number") : IsNumberData(d)
  /\ \A e \in store :
       (e.key = "random_number" /\ e.val # <<>>) =>
         (json_loads(e.val).ok /\ IsNumberData(json_loads(e.val).v))
  /\ \A r \in Requests :
       (pc[r] = "RESPOND" /\ handler[r] = "get_random_number") =>
         IsNumberData(resp[r][1].data)

\* One request was served the number 100 from the cache; after that entry
\* expired another generated the number 1, which the store now holds.
C14_Witness ==
  \E r, q \in Requests :
    /\ handler[r] = "get_random_number" /\ handler[q] = "get_random_number"
    /\ Returned(r, "cache") /\ resp[r][1].data[1].v.v = 100
    /\ Returned(q, "generated") /\ resp[q][1].data[1].v.v = 1
    /\ redis_get(store, "random_number") = Some(json_dumps(resp[q][1].data))

\* C15: a request that reads a non-empty text which json.loads rejects ends
\* in an error: it returns no response, does not take the miss path, runs no
\* generator and makes no write, and the store keeps the text as it is.
C15_DecodeFailure ==
  [][\A r \in Requests :
       /\ (ReadStep(r) /\ cached'[r] = Some(MalformedText(KeyOf(r)))) =>
            /\ pc'[r] = "ERROR" /\ failed'[r] = "json.loads"
            /\ resp'[r] = None
            /\ store' = store
       /\ failed[r] = "json.loads" =>
            /\ pc[r] = "ERROR" /\ resp[r] = None /\ calls[r].setex = 0
            /\ pc'[r] \in {"ERROR", "idle"}
            /\ pc'[r] # pc[r] => store' = store
    ]_vars

\* A request has ended in an error on the malformed text of its key, and
\* the store still holds that text.
C15_Witness ==
  \E r \in Requests :
    /\ pc[r] = "ERROR" /\ failed[r] = "json.loads"
    /\ cached[r] = Some(MalformedText(KeyOf(r)))
    /\ redis_get(store, KeyOf(r)) = cached[r]

\* C16: a read, and so a cache hit, writes nothing: it leaves the store, the
\* value and the time left of every entry as they were, and the request that
\* was served from the cache has made no write; the time an entry has left
\* is the seconds of its last write less the time since that write, however
\* often it was read, and when that time is up the key is absent.
C16_ReadsDoNotWrite ==
  [][/\ \A r \in Requests :
          /\ ReadStep(r) => (store' = store /\ lastWrite' = lastWrite)
          /\ (pc'[r] = "RESPOND" /\ resp'[r][1].source = "cache") =>
               calls'[r] = [get |-> 1, setex |-> 0]
     /\ \A k \in Keys :
          /\ WriteLive(k)' =>
               Entries(store', k) =
                 {[key |-> k, val |-> json_dumps(lastWrite'[k][1].data),
                   ttl |-> lastWrite'[k][1].seconds - lastWrite'[k][1].age]}
          /\ WriteElapsed(k)' => Entries(store', k) = {}
    ]_vars

\* Two requests were served the user entry from the cache, and the entry,
\* written 30 seconds ago with 60 seconds to live, has 30 seconds left.
C16_Witness ==
  \E r, q \in Requests :
    /\ r # q
    /\ Returned(r, "cache") /\ Returned(q, "cache")
    /\ handler[r] = "get_random_user" /\ handler[q] = "get_random_user"
    /\ lastWrite["random_user"][1].age = 30
    /\ \E e \in store : e.key = "random_user" /\ e.ttl = 30

\* C17: with the store written by this program only, a response with source
\* "cache" carries the data of the last completed write of its key, which is
\* data the endpoint's generator produced and a "generated" response
\* returned, and that write was completed less than the endpoint's TTL (30
\* or 60 seconds) before the read.
C17_CacheFromLastWrite ==
  [][\A r \in Requests :
       (ReadStep(r) /\ resp'[r] # None /\ resp'[r][1].source = "cache") =>
         LET k == KeyOf(r)
             ttl == IF handler[r] = "get_random_number" THEN 30 ELSE 60
         IN /\ lastWrite[k] # None
            /\ resp'[r][1].data = lastWrite[k][1].data
            /\ resp'[r][1].data \in Generated(handler[r])
            /\ lastWrite[k][1].age < ttl
    ]_vars

\* One number request generated and wrote its data, and a second was served
\* that data from the cache before 30 seconds had passed.
C17_Witness ==
  \E r, q \in Requests :
    /\ r # q
    /\ handler[r] = "get_random_number" /\ handler[q] = "get_random_number"
    /\ Returned(q, "generated")
    /\ Returned(r, "cache") /\ resp[r][1].data = resp[q][1].data
    /\ lastWrite["random_number"] =
         Some([data |-> resp[q][1].data, seconds |-> 30, age |-> 0])

\* The store calls a request has made, by its position.
CallsInOrder(r) ==
  /\ pc[r] \in {"idle", "CHECK_CACHE"} => calls[r] = [get |-> 0, setex |-> 0]
  /\ pc[r] = "COMPUTE" => (calls[r] = [get |-> 1, setex |-> 0] /\ ~Truthy(cached[r]))
  /\ pc[r] = "RESPOND" =>
       /\ calls[r].get = 1
       /\ calls[r].setex = IF resp[r][1].source = "generated" THEN 1 ELSE 0
  /\ pc[r] = "ERROR" =>
       /\ calls[r].get = 1
       /\ calls[r].setex = IF failed[r] = "set_cached_data" THEN 1 ELSE 0

\* C18: a request checks the cache, computes only after a miss, and responds:
\* it makes exactly one read of its key and at most one write, the write
\* only after its read returned a miss; and when the store answers every
\* operation and the sleep ends, every request that has started reaches a
\* response or an error, whatever the other requests and the clock do.
C18_Termination ==
  /\ [](\A r \in Requests : CallsInOrder(r))
  /\ [][\A r \in Requests :
          /\ calls'[r].get > calls[r].get => (pc[r] = "CHECK_CACHE" /\ calls[r].get = 0)
          /\ calls'[r].setex > calls[r].setex =>
               (pc[r] = "COMPUTE" /\ calls[r].setex = 0 /\ ~Truthy(cached[r]))
          /\ pc'[r] # pc[r] =>
               <<pc[r], pc'[r]>> \in
                 {<<"idle", "CHECK_CACHE">>, <<"CHECK_CACHE", "COMPUTE">>,
                  <<"CHECK_CACHE", "RESPOND">>, <<"CHECK_CACHE", "ERROR">>,
                  <<"COMPUTE", "RESPOND">>, <<"COMPUTE", "ERROR">>,
                  <<"RESPOND", "idle">>, <<"ERROR", "idle">>}
      ]_vars
  /\ \A r \in Requests :
       (pc[r] \in {"CHECK_CACHE", "COMPUTE"}) ~> (pc[r] \in {"RESPOND", "ERROR"})

\* While one request, which missed, is still computing, another that missed
\* with it has made its one read and its one write and has responded.
C18_Witness ==
  \E r, q \in Requests :
    /\ pc[r] = "COMPUTE" /\ calls[r] = [get |-> 1, setex |-> 0]
    /\ handler[q] = handler[r]
    /\ Returned(q, "generated") /\ calls[q] = [get |-> 1, setex |-> 1]
    /\ cached[q] = None

====
